---------------------------- MODULE Spec2Model ----------------------------
(***************************************************************************)
(* Model of the local-smart-portfolio repository.                          *)
(*                                                                         *)
(*   SpecChat   the useChat hook consuming POST /chat/stream               *)
(*              (src/frontend/hooks/useChat.ts)                            *)
(*   SpecAdmin  the API-key gate of the admin page                         *)
(*              (src/frontend/app/admin/page.tsx, lines 1-575)             *)
(*   SpecStore  the ingestion / vector-store backend behind the admin      *)
(*              endpoints.  Its code is not part of the source tree; it    *)
(*              is modelled from the specification (sections 3, 4.4,       *)
(*              4.6, 5, 6.1).                                              *)
(*                                                                         *)
(* Strings are sequences of one-character strings, so that length,         *)
(* concatenation and trimming are computed and not assumed.                *)
(***************************************************************************)
EXTENDS Integers, Sequences, FiniteSets, TLC

VARIABLES
    \* ---- useChat (React state of the hook, one entry per sendMessage call)
    messages,       \* useState<ChatMessage[]>
    isInitialized,  \* useState(false): the welcome effect has run
    inputMessage,   \* useState("")
    isTyping,       \* useState(false)
    maxHistory,     \* the hook's option; ChatWidget calls useChat() with the default
    nreq,           \* number of sendMessage calls that passed the trim guard
    pc,             \* per call: "idle", "fetch", "read", "done", "failed"
    wire,           \* per call: the SSE units of the response not yet read
    buffer,         \* per call: `buffer`, the unterminated tail of the reads
    assistantContent, \* per call: `assistantContent`
    messageAdded,   \* per call: `messageAdded`
    received,       \* per call: the units reader.read() has delivered so far
    body,           \* per call in flight: the JSON body of its POST /chat/stream
    \* ---- the same hook fed the same reads, except that the server sends
    \* ---- `data: [DONE]` where `wire` has the terminal JSON event
    messagesD,
    isTypingD,
    bufferD,
    assistantContentD,
    messageAddedD,
    \* ---- admin page (API-key version) and its browser
    sessionKey,     \* sessionStorage["admin_api_key"]; <<>> when absent
    envKey,         \* process.env.NEXT_PUBLIC_ADMIN_API_KEY || ""
    serverKey,      \* the backend's configured ADMIN_API_KEY
    pagePc,         \* AdminPage: "unmounted" before its mount effect, then "mounted"
    isAuthenticated,
    authChecked,
    adminApiKey,
    gateMounted,    \* ApiKeyGate is rendered
    apiKey,         \* ApiKeyGate: the form's input
    isChecking,     \* ApiKeyGate
    gateError,      \* ApiKeyGate: `error` is set
    validation,     \* the validateApiKey call in flight, if any
    \* ---- backend: vector store, orchestrator and HTTP layer
    records,        \* the collection: a set of chunk records
    op,             \* per admitted request: the operation it runs and its result
    nops,           \* number of admitted requests
    http,           \* the response the HTTP layer has just sent without running
                    \* a mutating operation, if any
    \* ---- backend: one POST /chat/stream request
    stream,         \* answer_stream's state and the events emitted so far
    \* ---- admin dashboard and ApiClient
    calls,          \* the ApiClient calls the page is waiting for
    settled,        \* the ApiClient call that settled last
    documents,      \* AdminPage: the rows of the document list
    health,         \* AdminPage: null or the health status
    stats,          \* AdminPage: null or the statistics
    isLoading,
    isUploading,
    uploadProgress,
    progressInterval, \* handleFileUpload's progress interval is running
    toast,          \* the last toast shown
    faults,         \* the requests that failed so far
    \* ---- useTerminalAnimation
    animationText,  \* the `text` argument of the current render
    displayText,
    showCursor,
    isComplete,
    index,          \* the effect's `index`
    typingInterval  \* the effect's typing interval is running

chatVars == <<messages, isInitialized, inputMessage, isTyping, maxHistory, nreq,
              pc, wire, buffer, assistantContent, messageAdded, received, body,
              messagesD, isTypingD, bufferD, assistantContentD, messageAddedD>>

adminVars == <<sessionKey, envKey, serverKey, pagePc, isAuthenticated, authChecked,
               adminApiKey, gateMounted, apiKey, isChecking, gateError, validation>>

storeVars == <<records, op, nops, http>>

streamVars == <<stream>>

apiVars == <<calls, settled, documents, health, stats, isLoading, isUploading,
             uploadProgress, progressInterval, toast, faults>>

animationVars == <<animationText, displayText, showCursor, isComplete, index, typingInterval>>

vars == <<chatVars, adminVars, storeVars, streamVars, apiVars, animationVars>>

\* what the steps of one part leave alone
exceptChat == <<adminVars, storeVars, streamVars, apiVars, animationVars>>
exceptAdmin == <<chatVars, storeVars, streamVars, apiVars, animationVars>>
exceptStore == <<chatVars, adminVars, streamVars, apiVars, animationVars>>
exceptStream == <<chatVars, adminVars, storeVars, apiVars, animationVars>>
exceptApi == <<chatVars, adminVars, streamVars, op, nops, http, animationVars>>
exceptAnimation == <<chatVars, adminVars, storeVars, streamVars, apiVars>>

-----------------------------------------------------------------------------
(* Bounds of the model *)

\* the least length of an admin key
MinKeyLen == 16

\* useChat's default for maxHistory
DefaultMaxHistory == 10

\* a maxHistory small enough for the list to reach it
ShortHistory == 3

\* sendMessage calls in one run of the hook
MaxReq == 2
\* data events before the terminal event of one response
MaxEvents == 2
\* requests the backend admits to a mutating operation
MaxOps == 2
\* CHUNK_SIZE and CHUNK_OVERLAP, in characters
ChunkSize == 2
ChunkOverlap == 1
\* MAX_FILE_SIZE_MB, in characters
MaxFileSize == 3
\* TOP_K_RESULTS
TopK == 2
\* requests of the dashboard that fail in one run
MaxFaults == 1

Reqs == 1..MaxReq

-----------------------------------------------------------------------------
(* useChat: messages *)

WelcomeText == <<"W">>
ErrorText == <<"E">>

Message(role, content, ts) == [role |-> role, content |-> content, timestamp |-> ts]

\* the welcome message of the mount effect and of clearMessages
WelcomeMessage == Message("assistant", WelcomeText, 0)

\* the catch block's message
ErrorMessage(r) == Message("assistant", ErrorText, r)

\* Array.prototype.slice(start) for start <= 0
SliceFrom(s, start) ==
    IF start = 0 \/ -start >= Len(s) THEN s
    ELSE SubSeq(s, Len(s) + start + 1, Len(s))

\* String.prototype.trim() on a sequence of characters (" " is whitespace)
RECURSIVE TrimLeft(_)
TrimLeft(s) == IF s # <<>> /\ Head(s) = " " THEN TrimLeft(Tail(s)) ELSE s

RECURSIVE TrimRight(_)
TrimRight(s) ==
    IF s # <<>> /\ s[Len(s)] = " " THEN TrimRight(SubSeq(s, 1, Len(s) - 1)) ELSE s

\* a guard on the raw input
Untrimmed(s) == s

Trim(s) == TrimRight(TrimLeft(s))

\* what the user can type into the input
Inputs == {<<>>, <<" ">>, <<"q">>}

-----------------------------------------------------------------------------
(* The SSE byte stream, in units: a line is the units between two newlines. *)
(* A data line is the prefix `data: ` followed by one payload.  A read may  *)
(* end after any unit, so a line can arrive in pieces.                      *)

Unit(t, chunk, done) == [t |-> t, chunk |-> chunk, done |-> done]

NL == Unit("\n", <<>>, FALSE)
DataPrefix == Unit("data: ", <<>>, FALSE)
DoneSentinel == Unit("[DONE]", <<>>, FALSE)
BadJson == Unit("{bad", <<>>, FALSE)
Json(chunk, done) == Unit("json", chunk, done)

\* {"chunk": "", "done": true, "sources": [...]}
TerminalJson == Json(<<>>, TRUE)

\* one event on the wire: `data: <payload>\n\n`
EventBytes(payload) == <<DataPrefix, payload, NL, NL>>

\* the text fragments the model produces, in production order
Tokens == <<"a", "b", "c">>

\* the events before the terminal one: TRUE is a data event carrying the next
\* text fragment, FALSE a data line that is not valid JSON
RECURSIVE EventsOf(_, _)
EventsOf(shape, k) ==
    IF shape = <<>> THEN <<>>
    ELSE IF Head(shape)
         THEN EventBytes(Json(<<Tokens[k]>>, FALSE)) \o EventsOf(Tail(shape), k + 1)
         ELSE EventBytes(BadJson) \o EventsOf(Tail(shape), k)

\* the responses of the server: up to MaxEvents events, then the terminal one
Wires ==
    { EventsOf(shape, 1) \o EventBytes(TerminalJson) :
        shape \in UNION { [1..n -> BOOLEAN] : n \in 0..MaxEvents } }

\* the same bytes with `data: [DONE]` in place of the terminal event
ReplaceTerminal(units) ==
    [i \in 1..Len(units) |-> IF units[i] = TerminalJson THEN DoneSentinel ELSE units[i]]


-----------------------------------------------------------------------------
(* useChat: the body of the read loop *)

\* the state one pass of the loop works on; brk is the `break` of the for loop
HookState(msgs, typing, content, added) ==
    [messages |-> msgs, isTyping |-> typing, content |-> content,
     added |-> added, brk |-> FALSE]

\* buffer.split("\n"): the pieces between newlines, the last one unterminated
RECURSIVE SplitLines(_)
SplitLines(s) ==
    IF \A i \in 1..Len(s) : s[i] # NL THEN <<s>>
    ELSE LET i == CHOOSE k \in 1..Len(s) : s[k] = NL /\ \A j \in 1..(k - 1) : s[j] # NL
         IN  <<SubSeq(s, 1, i - 1)>> \o SplitLines(SubSeq(s, i + 1, Len(s)))

\* line.startsWith("data: ")
StartsWithData(line) == Len(line) >= 1 /\ line[1] = DataPrefix

\* JSON.parse(data) returns an object (otherwise it throws and the line is skipped)
Parses(data) == Len(data) = 1 /\ data[1].t = "json"

\* a test that would take the empty string for text: `chunk.chunk !== undefined`
ChunkDefined(chunk) == TRUE

\* if (chunk.chunk): a non-empty string
ChunkTruthy(chunk) == chunk # <<>>

\* the two setMessages calls of a data event that carries text
OnChunk(st, chunk, r) ==
    LET content == st.content \o chunk
    IN  IF ~st.added
        THEN [st EXCEPT !.content = content,
                        !.messages = Append(@, Message("assistant", content, r)),
                        !.added = TRUE,
                        !.isTyping = FALSE]
        ELSE [st EXCEPT !.content = content,
                        !.messages = IF Len(@) > 0
                                     THEN [@ EXCEPT ![Len(@)].content = content]
                                     ELSE @]

\* one iteration of `for (const line of lines)`
ProcessLine(st, line, r) ==
    IF ~StartsWithData(line) THEN st
    ELSE LET data == Tail(line)
         IN  IF data = <<DoneSentinel>> THEN [st EXCEPT !.brk = TRUE]
             ELSE IF ~Parses(data) THEN st
             ELSE IF ChunkTruthy(data[1].chunk) THEN OnChunk(st, data[1].chunk, r)
             ELSE st

RECURSIVE ProcessLines(_, _, _)
ProcessLines(st, lines, r) ==
    IF lines = <<>> \/ st.brk THEN st
    ELSE ProcessLines(ProcessLine(st, Head(lines), r), Tail(lines), r)

\* one pass of `while (true)` after reader.read() returned `value`
OnRead(st, buf, value, r) ==
    LET lines == SplitLines(buf \o value)
    IN  [st     |-> ProcessLines(st, SubSeq(lines, 1, Len(lines) - 1), r),
         buffer |-> lines[Len(lines)]]

-----------------------------------------------------------------------------
(* useChat: actions *)

\* the mount effect adds the welcome message
Mount ==
    /\ ~isInitialized /\ Len(messages) = 0
    /\ messages' = <<WelcomeMessage>>
    /\ messagesD' = <<WelcomeMessage>>
    /\ isInitialized' = TRUE
    /\ UNCHANGED <<inputMessage, isTyping, maxHistory, nreq, pc, wire, buffer,
                   assistantContent, messageAdded, received,
                   isTypingD, bufferD, assistantContentD, messageAddedD>>
    /\ UNCHANGED body
    /\ UNCHANGED exceptChat

\* the user types
SetInputMessage ==
    /\ isInitialized
    /\ \E text \in Inputs : inputMessage' = text
    /\ UNCHANGED <<messages, isInitialized, isTyping, maxHistory, nreq, pc, wire,
                   buffer, assistantContent, messageAdded, received,
                   messagesD, isTypingD, bufferD, assistantContentD, messageAddedD>>
    /\ UNCHANGED body
    /\ UNCHANGED exceptChat

\* history.map((msg) => ({role, content}))
Reduced(msgs) == [i \in DOMAIN msgs |-> [role |-> msgs[i].role, content |-> msgs[i].content]]

NoBody == [message |-> <<>>, history |-> <<>>]

\* a body whose history holds the submitted message too
BodyWithWholeHistory(currentHistory, userMessage) ==
    [message |-> userMessage.content, history |-> Reduced(currentHistory)]

\* the body of the POST: the message, and currentHistory.slice(0, -1) reduced
Body(currentHistory, userMessage) ==
    [message |-> userMessage.content,
     history |-> Reduced(SubSeq(currentHistory, 1, Len(currentHistory) - 1))]

\* sendMessage up to the fetch
SendMessage ==
    /\ isInitialized
    /\ IF Trim(inputMessage) = <<>>
       THEN UNCHANGED chatVars
       ELSE /\ nreq < MaxReq
            /\ LET r == nreq + 1
                   userMessage == Message("user", inputMessage, r)
               IN  /\ nreq' = r
                   /\ messages' = Append(SliceFrom(messages, -maxHistory + 1), userMessage)
                   /\ messagesD' = Append(SliceFrom(messagesD, -maxHistory + 1), userMessage)
                   /\ pc' = [pc EXCEPT ![r] = "fetch"]
                   /\ body' = [body EXCEPT ![r] =
                                 Body(Append(SliceFrom(messages, -maxHistory + 1),
                                             userMessage),
                                      userMessage)]
            /\ inputMessage' = <<>>
            /\ isTyping' = TRUE
            /\ isTypingD' = TRUE
            /\ UNCHANGED <<isInitialized, maxHistory, wire, buffer, assistantContent,
                           messageAdded, received, bufferD, assistantContentD,
                           messageAddedD>>
    /\ UNCHANGED exceptChat

\* ChatInput's Send button is enabled: !(!value.trim() || disabled), where
\* ChatWidget passes disabled = isTyping
ButtonEnabled == ~(Trim(inputMessage) = <<>> \/ isTyping)

\* the user clicks the Send button: onClick = onSend
ClickSend ==
    /\ ButtonEnabled
    /\ SendMessage

\* the user presses a key in the input: handleKeyDown calls onSend on Enter
\* without Shift
HandleKeyDown ==
    \E key \in {"Enter", "a"}, shiftKey \in BOOLEAN :
        IF key = "Enter" /\ ~shiftKey THEN SendMessage ELSE UNCHANGED vars

\* a catch block that writes the error over the last message
ErrorOverLast(prev, r) ==
    IF prev = <<>> THEN <<ErrorMessage(r)>>
    ELSE [prev EXCEPT ![Len(prev)] = ErrorMessage(r)]

\* the catch block's setMessages((prev) => [...prev, errorMessage])
AddError(prev, r) == Append(prev, ErrorMessage(r))

\* the catch block; the reader and the loop's locals are dropped with the call
Catch(r) ==
    /\ pc' = [pc EXCEPT ![r] = "failed"]
    /\ isTyping' = FALSE
    /\ isTypingD' = FALSE
    /\ messages' = AddError(messages, r)
    /\ messagesD' = AddError(messagesD, r)
    /\ wire' = [wire EXCEPT ![r] = <<>>]
    /\ received' = [received EXCEPT ![r] = <<>>]
    /\ buffer' = [buffer EXCEPT ![r] = <<>>]
    /\ bufferD' = [bufferD EXCEPT ![r] = <<>>]
    /\ assistantContent' = [assistantContent EXCEPT ![r] = <<>>]
    /\ assistantContentD' = [assistantContentD EXCEPT ![r] = <<>>]
    /\ messageAdded' = [messageAdded EXCEPT ![r] = FALSE]
    /\ messageAddedD' = [messageAddedD EXCEPT ![r] = FALSE]
    /\ UNCHANGED <<isInitialized, inputMessage, maxHistory, nreq>>
    /\ body' = [body EXCEPT ![r] = NoBody]
    /\ UNCHANGED exceptChat

\* fetch rejects, or the response is not ok, or it has no body
FetchFail(r) ==
    /\ pc[r] = "fetch"
    /\ Catch(r)

\* fetch resolves with an ok response and a body
FetchOk(r) ==
    /\ pc[r] = "fetch"
    /\ \E w \in Wires : wire' = [wire EXCEPT ![r] = w]
    /\ pc' = [pc EXCEPT ![r] = "read"]
    /\ UNCHANGED <<messages, isInitialized, inputMessage, isTyping, maxHistory, nreq,
                   buffer, assistantContent, messageAdded, received,
                   messagesD, isTypingD, bufferD, assistantContentD, messageAddedD>>
    /\ UNCHANGED body
    /\ UNCHANGED exceptChat

\* reader.read() resolves with the next n units of the response
ReadChunk(r) ==
    /\ pc[r] = "read"
    /\ \E n \in 1..Len(wire[r]) :
         LET value == SubSeq(wire[r], 1, n)
             res == OnRead(HookState(messages, isTyping, assistantContent[r],
                                     messageAdded[r]),
                           buffer[r], value, r)
             resD == OnRead(HookState(messagesD, isTypingD, assistantContentD[r],
                                      messageAddedD[r]),
                            bufferD[r], ReplaceTerminal(value), r)
         IN  /\ wire' = [wire EXCEPT ![r] = SubSeq(@, n + 1, Len(@))]
             /\ received' = [received EXCEPT ![r] = @ \o value]
             /\ buffer' = [buffer EXCEPT ![r] = res.buffer]
             /\ messages' = res.st.messages
             /\ isTyping' = res.st.isTyping
             /\ assistantContent' = [assistantContent EXCEPT ![r] = res.st.content]
             /\ messageAdded' = [messageAdded EXCEPT ![r] = res.st.added]
             /\ bufferD' = [bufferD EXCEPT ![r] = resD.buffer]
             /\ messagesD' = resD.st.messages
             /\ isTypingD' = resD.st.isTyping
             /\ assistantContentD' = [assistantContentD EXCEPT ![r] = resD.st.content]
             /\ messageAddedD' = [messageAddedD EXCEPT ![r] = resD.st.added]
    /\ UNCHANGED <<isInitialized, inputMessage, maxHistory, nreq, pc>>
    /\ UNCHANGED body
    /\ UNCHANGED exceptChat

\* a hook that stops the indicator only when text arrives
TypingLeftAsIs(typing) == typing

\* setIsTyping(false) after the loop
TypingAfterStream(typing) == FALSE

\* reader.read() resolves with done: the loop ends
ReadDone(r) ==
    /\ pc[r] = "read"
    /\ wire[r] = <<>>
    /\ pc' = [pc EXCEPT ![r] = "done"]
    /\ isTyping' = TypingAfterStream(isTyping)
    /\ isTypingD' = TypingAfterStream(isTypingD)
    /\ UNCHANGED <<messages, isInitialized, inputMessage, maxHistory, nreq, wire,
                   buffer, assistantContent, messageAdded, received,
                   messagesD, bufferD, assistantContentD, messageAddedD>>
    /\ body' = [body EXCEPT ![r] = NoBody]
    /\ UNCHANGED exceptChat

\* reader.read() rejects
ReadError(r) ==
    /\ pc[r] = "read"
    /\ Catch(r)

InitChat ==
    /\ messages = <<>>
    /\ messagesD = <<>>
    /\ isInitialized = FALSE
    /\ inputMessage = <<>>
    /\ isTyping = FALSE
    /\ isTypingD = FALSE
    /\ maxHistory = DefaultMaxHistory
    /\ nreq = 0
    /\ pc = [r \in Reqs |-> "idle"]
    /\ wire = [r \in Reqs |-> <<>>]
    /\ received = [r \in Reqs |-> <<>>]
    /\ body = [r \in Reqs |-> NoBody]
    /\ buffer = [r \in Reqs |-> <<>>]
    /\ bufferD = [r \in Reqs |-> <<>>]
    /\ assistantContent = [r \in Reqs |-> <<>>]
    /\ assistantContentD = [r \in Reqs |-> <<>>]
    /\ messageAdded = [r \in Reqs |-> FALSE]
    /\ messageAddedD = [r \in Reqs |-> FALSE]

NextChat ==
    \/ Mount
    \/ SetInputMessage
    \/ ClickSend
    \/ HandleKeyDown
    \/ \E r \in Reqs : FetchFail(r)
    \/ \E r \in Reqs : FetchOk(r)
    \/ \E r \in Reqs : ReadChunk(r)
    \/ \E r \in Reqs : ReadDone(r)
    \/ \E r \in Reqs : ReadError(r)

-----------------------------------------------------------------------------
(* Admin keys *)

\* a key of n characters c
KeyOfLen(n, c) == [i \in 1..n |-> c]

\* the keys of the model: none, one character too short, long enough (two of them)
NoKey == <<>>
ShortKey == KeyOfLen(MinKeyLen - 1, "a")
KeyA == KeyOfLen(MinKeyLen, "a")
KeyB == KeyOfLen(MinKeyLen, "b")
Keys == {NoKey, ShortKey, KeyA, KeyB}

\* the HTTP layer's gate on admin endpoints: the X-Admin-Key header must be
\* present, at least MinKeyLen characters long and equal to the configured key
Authorized(key, configured) ==
    /\ key # NoKey
    /\ Len(key) >= MinKeyLen
    /\ key = configured

-----------------------------------------------------------------------------
(* Admin page: validateApiKey *)

NoValidation == [src |-> "none", key |-> NoKey, response |-> "none", stale |-> FALSE]

\* validateApiKey(key) up to its fetch; src is the caller
StartValidation(src, key) ==
    [src |-> src, key |-> key, response |-> "pending", stale |-> FALSE]

\* a validateApiKey that takes every answer but a rejection for a valid key
ValidUnlessRejected(response) == response # "unauthorized"

\* validateApiKey's result: response.ok, and false when fetch rejects
IsValid(response) == response = "ok"

\* a configuration check that looks only at the key being set
KeyIsSet(key) == key # NoKey

\* isAdminKeyConfigured()
IsAdminKeyConfigured(key) == key # NoKey /\ Len(key) >= MinKeyLen

\* the submit button is enabled: !(!apiKey || apiKey.length < 16 || isChecking)
SubmitEnabled == ~(apiKey = NoKey \/ Len(apiKey) < MinKeyLen \/ isChecking)

\* the form is rendered (and not the spinner): !(isChecking && !apiKey)
FormRendered == gateMounted /\ ~(isChecking /\ apiKey = NoKey)

\* GET /admin/stats reaches the backend, which answers 200 or 401
BackendAnswers ==
    /\ validation.response = "pending"
    /\ validation' = [validation EXCEPT
                        !.response = IF Authorized(validation.key, serverKey)
                                     THEN "ok" ELSE "unauthorized"]
    /\ UNCHANGED <<sessionKey, envKey, serverKey, pagePc, isAuthenticated, authChecked,
                   adminApiKey, gateMounted, apiKey, isChecking, gateError>>
    /\ UNCHANGED exceptAdmin

\* the fetch rejects
NetworkFails ==
    /\ validation.response = "pending"
    /\ validation' = [validation EXCEPT !.response = "failed"]
    /\ UNCHANGED <<sessionKey, envKey, serverKey, pagePc, isAuthenticated, authChecked,
                   adminApiKey, gateMounted, apiKey, isChecking, gateError>>
    /\ UNCHANGED exceptAdmin

-----------------------------------------------------------------------------
(* Admin page: AdminPage and ApiKeyGate *)

\* a page that leaves the key where it is
ItemKept(stored) == stored

\* sessionStorage.removeItem("admin_api_key")
RemoveItem(stored) == NoKey

\* AdminPage's mount effect: check the session's key
PageMount ==
    /\ pagePc = "unmounted"
    /\ pagePc' = "mounted"
    /\ IF sessionKey # NoKey /\ Len(sessionKey) >= MinKeyLen
       THEN /\ validation' = StartValidation("session", sessionKey)
            /\ UNCHANGED authChecked
       ELSE /\ authChecked' = TRUE
            /\ UNCHANGED validation
    /\ UNCHANGED <<sessionKey, envKey, serverKey, isAuthenticated, adminApiKey,
                   gateMounted, apiKey, isChecking, gateError>>
    /\ UNCHANGED exceptAdmin

\* the .then of the mount effect's validateApiKey(storedKey)
SessionValidated ==
    /\ validation.src = "session"
    /\ validation.response \in {"ok", "unauthorized", "failed"}
    /\ IF IsValid(validation.response)
       THEN /\ adminApiKey' = validation.key
            /\ isAuthenticated' = TRUE
            /\ UNCHANGED sessionKey
       ELSE /\ sessionKey' = RemoveItem(sessionKey)
            /\ UNCHANGED <<adminApiKey, isAuthenticated>>
    /\ authChecked' = TRUE
    /\ validation' = NoValidation
    /\ UNCHANGED <<envKey, serverKey, pagePc, gateMounted, apiKey, isChecking,
                   gateError>>
    /\ UNCHANGED exceptAdmin

\* AdminPage renders ApiKeyGate, whose effect runs autoValidateEnvKey
GateMount ==
    /\ authChecked /\ ~isAuthenticated /\ ~gateMounted
    /\ gateMounted' = TRUE
    /\ apiKey' = NoKey
    /\ IF IsAdminKeyConfigured(envKey)
       THEN /\ isChecking' = TRUE
            /\ gateError' = FALSE
            /\ validation' = StartValidation("env", envKey)
       ELSE /\ isChecking' = FALSE
            /\ gateError' = FALSE
            /\ UNCHANGED validation
    /\ UNCHANGED <<sessionKey, envKey, serverKey, pagePc, isAuthenticated, authChecked,
                   adminApiKey>>
    /\ UNCHANGED exceptAdmin

\* autoValidateEnvKey after its await
EnvValidated ==
    /\ validation.src = "env"
    /\ validation.response \in {"ok", "unauthorized", "failed"}
    /\ validation' = NoValidation
    /\ IF validation.stale
       THEN UNCHANGED <<sessionKey, adminApiKey, isAuthenticated, gateMounted,
                        gateError, isChecking>>
       ELSE IF IsValid(validation.response)
       THEN /\ sessionKey' = validation.key
            /\ adminApiKey' = validation.key
            /\ isAuthenticated' = TRUE
            /\ gateMounted' = FALSE
            /\ isChecking' = FALSE
            /\ UNCHANGED gateError
       ELSE /\ gateError' = TRUE
            /\ isChecking' = FALSE
            /\ UNCHANGED <<sessionKey, adminApiKey, isAuthenticated, gateMounted>>
    /\ UNCHANGED <<envKey, serverKey, pagePc, authChecked, apiKey>>
    /\ UNCHANGED exceptAdmin

\* the user types into the form
SetApiKey ==
    /\ FormRendered
    /\ \E k \in Keys : apiKey' = k
    /\ UNCHANGED <<sessionKey, envKey, serverKey, pagePc, isAuthenticated, authChecked,
                   adminApiKey, gateMounted, isChecking, gateError, validation>>
    /\ UNCHANGED exceptAdmin

\* handleSubmit up to its await; the form submits only through its enabled button
HandleSubmit ==
    /\ FormRendered
    /\ SubmitEnabled
    /\ isChecking' = TRUE
    /\ gateError' = FALSE
    /\ validation' = StartValidation("form", apiKey)
    /\ UNCHANGED <<sessionKey, envKey, serverKey, pagePc, isAuthenticated, authChecked,
                   adminApiKey, gateMounted, apiKey>>
    /\ UNCHANGED exceptAdmin

\* handleSubmit after its await
FormValidated ==
    /\ validation.src = "form"
    /\ validation.response \in {"ok", "unauthorized", "failed"}
    /\ validation' = NoValidation
    /\ IF IsValid(validation.response)
       THEN /\ sessionKey' = validation.key
            /\ adminApiKey' = validation.key
            /\ isAuthenticated' = TRUE
            /\ gateMounted' = FALSE
            /\ apiKey' = NoKey
            /\ UNCHANGED gateError
       ELSE /\ gateError' = TRUE
            /\ apiKey' = NoKey
            /\ UNCHANGED <<sessionKey, adminApiKey, isAuthenticated, gateMounted>>
    /\ isChecking' = FALSE
    /\ UNCHANGED <<envKey, serverKey, pagePc, authChecked>>
    /\ UNCHANGED exceptAdmin

\* the Logout button of the dashboard
Logout ==
    /\ authChecked /\ isAuthenticated
    /\ sessionKey' = RemoveItem(sessionKey)
    /\ adminApiKey' = NoKey
    /\ isAuthenticated' = FALSE
    /\ UNCHANGED <<envKey, serverKey, pagePc, authChecked, gateMounted, apiKey,
                   isChecking, gateError, validation>>
    /\ UNCHANGED exceptAdmin

\* the page before it mounts, in a browser session that holds `session` and a
\* build that holds `env`, against a backend configured with a key of the
\* required length
AdminPageLoaded(session, env) ==
    /\ sessionKey = session
    /\ envKey = env
    /\ serverKey = KeyA
    /\ pagePc = "unmounted"
    /\ isAuthenticated = FALSE
    /\ authChecked = FALSE
    /\ adminApiKey = NoKey
    /\ gateMounted = FALSE
    /\ apiKey = NoKey
    /\ isChecking = FALSE
    /\ gateError = FALSE
    /\ validation = NoValidation

\* the session and the build may hold any key
InitAdmin == \E session \in Keys, env \in Keys : AdminPageLoaded(session, env)

-----------------------------------------------------------------------------
(* Backend: DocumentLoader and ChunkingUtility *)

File(filename, ext, bytes) == [filename |-> filename, ext |-> ext, bytes |-> bytes]

AllowedExtensions == {".pdf", ".md", ".txt", ".docx"}

\* the uploads of the model: a document of two chunks, a document of one, an
\* extension off the allow-list, a file with no text, a file over the size limit
Uploads ==
    { File("a", ".md", [i \in 1..(ChunkSize + 1) |->
                          IF i = 1 THEN "x" ELSE IF i = ChunkSize + 1 THEN "z" ELSE "y"]),
      File("b", ".txt", <<"x">>),
      File("c", ".exe", <<"x">>),
      File("d", ".md", <<>>),
      File("e", ".md", [i \in 1..(MaxFileSize + 1) |-> "x"]) }

\* validate(filename, size_bytes)
Validate(file) ==
    IF file.ext \notin AllowedExtensions THEN "UnsupportedFormat"
    ELSE IF Len(file.bytes) > MaxFileSize THEN "TooLarge"
    ELSE "ok"

\* document_id: a function of the filename and of the content's hash
DocumentId(file) == <<file.filename, file.bytes>>

\* parse(filename, bytes): Markdown and plain text decode to their characters
ParseText(file) == file.bytes

\* the ordered chunks of a text: at most ChunkSize characters each, each
\* carrying the last ChunkOverlap characters of the one before
RECURSIVE ChunkText(_)
ChunkText(text) ==
    IF text = <<>> THEN <<>>
    ELSE IF Len(text) <= ChunkSize THEN <<text>>
    ELSE <<SubSeq(text, 1, ChunkSize)>>
             \o ChunkText(SubSeq(text, ChunkSize - ChunkOverlap + 1, Len(text)))

-----------------------------------------------------------------------------
(* Backend: VectorStore *)

\* an identifier made fresh for every ingestion
ChunkIdPerUpload(doc, ordinal, o) == <<doc, ordinal, o>>

\* chunk_id = "<document_id>:<ordinal>"
ChunkId(doc, ordinal, o) == <<doc, ordinal, 0>>

\* the records ingestion o composes for `file`; uploaded_at is the time of o
RecordsOf(file, o) ==
    LET chunks == ChunkText(ParseText(file))
    IN  [i \in 1..Len(chunks) |->
            [chunk_id     |-> ChunkId(DocumentId(file), i - 1, o),
             document_id  |-> DocumentId(file),
             filename     |-> file.filename,
             chunk_index  |-> i - 1,
             total_chunks |-> Len(chunks),
             uploaded_at  |-> o,
             text         |-> chunks[i]]]

Range(f) == {f[i] : i \in DOMAIN f}

\* upsert(records): by chunk_id
Upsert(store, recs) ==
    {r \in store : \A n \in recs : n.chunk_id # r.chunk_id} \cup recs

\* a match on the filename alone, whatever the content hash
ChunksOfFilename(store, doc) == {r \in store : r.document_id[1] = doc[1]}

\* the chunks whose metadata's document_id matches
ChunksOfDocument(store, doc) == {r \in store : r.document_id = doc}

\* a delete that stops after the first chunk it finds
FirstChunkOfDocument(store, doc) ==
    {r \in ChunksOfDocument(store, doc) : r.chunk_index = 0}

\* the chunks delete_document(document_id) removes: every matching chunk
DeletedChunks(store, doc) == ChunksOfDocument(store, doc)

\* a chunk_count read from the metadata written at ingestion
CountFromMetadata(store, doc) ==
    IF ChunksOfDocument(store, doc) = {} THEN 0
    ELSE (CHOOSE r \in ChunksOfDocument(store, doc) : TRUE).total_chunks

\* chunk_count: the number of chunks currently indexed under the document
ChunkCount(store, doc) == Cardinality(ChunksOfDocument(store, doc))

DocumentIds(store) == {r.document_id : r \in store}

\* list_documents(): one entry per distinct document_id
ListDocuments(store) ==
    { [document_id |-> d, chunk_count |-> ChunkCount(store, d)] : d \in DocumentIds(store) }

\* stats()
Stats(store) ==
    [total_documents |-> Cardinality(DocumentIds(store)),
     total_chunks    |-> Cardinality(store)]

\* similarity of a query and a chunk: the characters they share
Similarity(q, r) == Cardinality(Range(q) \cap Range(r.text))

\* the queries of the model
Queries == {<<"x">>, <<"z">>, <<"w">>}

\* query(embedding, k): the k most similar records (ties and order aside,
\* the set of records returned)
Query(store, q, k) ==
    IF Cardinality(store) <= k THEN store
    ELSE CHOOSE top \in SUBSET store :
            /\ Cardinality(top) = k
            /\ \A r \in top, x \in store \ top : Similarity(q, r) >= Similarity(q, x)
-----------------------------------------------------------------------------
(* Backend: HTTP layer and RAGOrchestrator *)

Ops == 1..MaxOps

NoDoc == <<"", <<>>>>
NoFile == File("", "", <<>>)
NoHttp == [endpoint |-> "none", key |-> NoKey, status |-> 0]
IdleOp == [kind |-> "none", file |-> NoFile, doc |-> NoDoc, key |-> NoKey,
           pc |-> "idle", exists |-> FALSE, error |-> "none", indexed |-> 0,
           chunk_count |-> 0, deleted_chunks |-> 0]

AdminEndpoints ==
    {"POST /ingest", "GET /admin/documents", "DELETE /admin/documents/{id}",
     "GET /admin/stats"}

\* a gate that leaves the ingest endpoint open
KeyRequiredExceptIngest(endpoint) ==
    endpoint \in AdminEndpoints \ {"POST /ingest"}

\* the endpoints behind the X-Admin-Key gate
KeyRequired(endpoint) == endpoint \in AdminEndpoints

\* the HTTP layer lets the request through to the orchestrator
Admitted(endpoint, key) == KeyRequired(endpoint) => Authorized(key, serverKey)

\* the documents a DELETE can name: the two of the model and one never ingested
DeleteTargets ==
    {DocumentId(f) : f \in {u \in Uploads : Validate(u) = "ok" /\ ParseText(u) # <<>>}}
        \cup {<<"anything", <<>>>>}

\* a request the gate turns away: 401, nothing else happens
RejectRequest ==
    /\ \E endpoint \in AdminEndpoints, key \in Keys :
         /\ ~Admitted(endpoint, key)
         /\ http' = [endpoint |-> endpoint, key |-> key, status |-> 401]
    /\ UNCHANGED <<records, op, nops>>
    /\ UNCHANGED exceptStore

\* GET /admin/documents and GET /admin/stats: answered from the store
ReadRequest ==
    /\ \E endpoint \in {"GET /admin/documents", "GET /admin/stats"}, key \in Keys :
         /\ Admitted(endpoint, key)
         /\ http' = [endpoint |-> endpoint, key |-> key, status |-> 200]
    /\ UNCHANGED <<records, op, nops>>
    /\ UNCHANGED exceptStore

\* POST /ingest, steps 1 and 2: validate and parse; UnsupportedFormat, TooLarge
\* and ParseFailed are answered as 4xx
IngestRequest ==
    \E file \in Uploads, key \in Keys :
        /\ Admitted("POST /ingest", key)
        /\ IF Validate(file) # "ok" \/ ParseText(file) = <<>>
           THEN /\ http' = [endpoint |-> "POST /ingest", key |-> key, status |-> 400]
                /\ UNCHANGED <<records, op, nops>>
           ELSE /\ nops < MaxOps
                /\ nops' = nops + 1
                /\ op' = [op EXCEPT ![nops + 1] =
                            [IdleOp EXCEPT !.kind = "ingest", !.file = file,
                                           !.doc = DocumentId(file), !.key = key,
                                           !.pc = "check"]]
                /\ UNCHANGED <<records, http>>
        /\ UNCHANGED exceptStore

\* step 3: does the document already exist in the store
IngestCheck(o) ==
    /\ op[o].pc = "check"
    /\ LET exists == op[o].doc \in DocumentIds(records)
       IN  op' = [op EXCEPT ![o].exists = exists,
                            ![o].pc = IF exists THEN "delete_old" ELSE "embed"]
    /\ UNCHANGED <<records, nops, http>>
    /\ UNCHANGED exceptStore

\* step 3: delete the existing chunks first
IngestDeleteOld(o) ==
    /\ op[o].pc = "delete_old"
    /\ records' = records \ DeletedChunks(records, op[o].doc)
    /\ op' = [op EXCEPT ![o].pc = "embed"]
    /\ UNCHANGED <<nops, http>>
    /\ UNCHANGED exceptStore

\* steps 4 to 6: chunk, embed_batch, compose the records
IngestEmbed(o) ==
    /\ op[o].pc = "embed"
    /\ op' = [op EXCEPT ![o].pc = "upsert"]
    /\ UNCHANGED <<records, nops, http>>
    /\ UNCHANGED exceptStore

\* embed_batch raises EmbeddingFailed
IngestEmbedFail(o) ==
    /\ op[o].pc = "embed"
    /\ op' = [op EXCEPT ![o].pc = "compensate", ![o].error = "EmbeddingFailed"]
    /\ UNCHANGED <<records, nops, http>>
    /\ UNCHANGED exceptStore

\* step 7 and 8: upsert the records and return the summary
IngestUpsert(o) ==
    /\ op[o].pc = "upsert"
    /\ LET recs == RecordsOf(op[o].file, o)
       IN  /\ records' = Upsert(records, Range(recs))
           /\ op' = [op EXCEPT ![o].pc = "done", ![o].chunk_count = Len(recs)]
    /\ UNCHANGED <<nops, http>>
    /\ UNCHANGED exceptStore

\* upsert fails after it has indexed the first k records
IngestUpsertFail(o) ==
    /\ op[o].pc = "upsert"
    /\ LET recs == RecordsOf(op[o].file, o)
       IN  \E k \in 0..(Len(recs) - 1) :
              /\ records' = Upsert(records, Range(SubSeq(recs, 1, k)))
              /\ op' = [op EXCEPT ![o].pc = "compensate",
                                  ![o].error = "VectorStoreFailed",
                                  ![o].indexed = k]
    /\ UNCHANGED <<nops, http>>
    /\ UNCHANGED exceptStore

\* no delete after a failure
NoCompensation(store, doc) == store

\* the compensating delete of the in-progress document_id
Compensate(store, doc) == store \ DeletedChunks(store, doc)

\* the failure path: compensate, then answer 5xx
IngestCompensate(o) ==
    /\ op[o].pc = "compensate"
    /\ records' = Compensate(records, op[o].doc)
    /\ op' = [op EXCEPT ![o].pc = "failed"]
    /\ UNCHANGED <<nops, http>>
    /\ UNCHANGED exceptStore

\* DELETE /admin/documents/{document_id}
DeleteRequest ==
    \E doc \in DeleteTargets, key \in Keys :
        /\ Admitted("DELETE /admin/documents/{id}", key)
        /\ nops < MaxOps
        /\ nops' = nops + 1
        /\ records' = records \ DeletedChunks(records, doc)
        /\ op' = [op EXCEPT ![nops + 1] =
                    [IdleOp EXCEPT !.kind = "delete", !.doc = doc, !.key = key,
                                   !.pc = "done",
                                   !.deleted_chunks =
                                       Cardinality(DeletedChunks(records, doc))]]
        /\ UNCHANGED http
        /\ UNCHANGED exceptStore

\* an empty collection behind a backend configured with a key of the
\* required length
InitStore ==
    /\ records = {}
    /\ op = [o \in Ops |-> IdleOp]
    /\ nops = 0
    /\ http = NoHttp

-----------------------------------------------------------------------------
(* Backend: answer_stream and the events of POST /chat/stream *)

\* the documents of a collection that holds one filename under two contents
Corpus ==
    { f \in Uploads : Validate(f) = "ok" /\ ParseText(f) # <<>> }
        \cup { File("a", ".md", <<"z">>) }

\* the collections a query can meet: any of the documents, each indexed once
Stores == { UNION { Range(RecordsOf(f, 1)) : f \in S } : S \in SUBSET Corpus }

\* the queries of the model, and the empty one
StreamQueries == Queries \cup {<<>>}

Min(a, b) == IF a < b THEN a ELSE b

\* query(embedding, k) as the ordered hits: the k most similar records, most
\* similar first; records of equal similarity come in any order
RankedHits(store, q, k) ==
    { hits \in [1..Min(k, Cardinality(store)) -> store] :
        /\ \A i \in DOMAIN hits, j \in DOMAIN hits : i # j => hits[i] # hits[j]
        /\ \A i \in DOMAIN hits, j \in DOMAIN hits :
               i < j => Similarity(q, hits[i]) >= Similarity(q, hits[j])
        /\ \A i \in DOMAIN hits, x \in store \ Range(hits) :
               Similarity(q, hits[i]) >= Similarity(q, x) }

\* the filename metadata of the hits, in order
Filenames(hits) == [i \in DOMAIN hits |-> hits[i].filename]

\* a source list that names every hit
EveryFilename(names) == names

\* step 5: the unique ordered list of source filenames
RECURSIVE UniqueOrdered(_)
UniqueOrdered(names) ==
    IF names = <<>> THEN <<>>
    ELSE LET front == UniqueOrdered(SubSeq(names, 1, Len(names) - 1))
             last == names[Len(names)]
         IN  IF last \in Range(front) THEN front ELSE Append(front, last)

\* `sources: null` of an intermediate event
Null == <<"null">>

Event(chunk, done, sources) == [chunk |-> chunk, done |-> done, sources |-> sources]

ApologyChunk == <<"s", "o", "r", "r", "y">>

\* a failure that just breaks the connection
BrokenConnection(sources) == <<>>

\* what the stream emits when the LLM call fails mid-response
OnStreamFailure(sources) == <<Event(ApologyChunk, TRUE, sources)>>

NoStream == [pc |-> "idle", query |-> <<>>, retrieved |-> <<>>, sources |-> <<>>,
             events |-> <<>>]

\* answer_stream steps 1 to 5: reject the empty query, else embed, query the
\* store and extract the sources
AnswerStream ==
    /\ stream.pc = "idle"
    /\ \E q \in StreamQueries :
         IF q = <<>>
         THEN stream' = [stream EXCEPT !.pc = "rejected"]
         ELSE \E hits \in RankedHits(records, q, TopK) :
                 stream' = [stream EXCEPT !.pc = "streaming", !.query = q,
                                          !.retrieved = hits,
                                          !.sources = UniqueOrdered(Filenames(hits))]
    /\ UNCHANGED exceptStream

\* step 6: the LLM yields its next token, re-emitted as an intermediate event
YieldToken ==
    /\ stream.pc = "streaming"
    /\ Len(stream.events) < MaxEvents
    /\ stream' = [stream EXCEPT
                    !.events = Append(@, Event(<<Tokens[Len(@) + 1]>>, FALSE, Null))]
    /\ UNCHANGED exceptStream

\* step 6: after the last token, the terminal event carrying the source list
EndOfStream ==
    /\ stream.pc = "streaming"
    /\ stream' = [stream EXCEPT
                    !.pc = "closed",
                    !.events = Append(@, Event(<<>>, TRUE, stream.sources))]
    /\ UNCHANGED exceptStream

\* the LLM stream fails or goes idle mid-response
StreamFails ==
    /\ stream.pc = "streaming"
    /\ stream' = [stream EXCEPT
                    !.pc = "closed",
                    !.events = @ \o OnStreamFailure(stream.sources)]
    /\ UNCHANGED exceptStream

InitStream == stream = NoStream

-----------------------------------------------------------------------------
(* Admin dashboard: ApiClient and the handlers that call it *)

\* a request without an X-Admin-Key header
NoHeader == <<"no X-Admin-Key header">>

\* what `${documentId}` puts in the URL when documentId is undefined
Undefined == <<"undefined", <<>>>>

\* null, for a value that is otherwise a list of one element
NoValue == <<>>

ApiOperations ==
    {"getHealth", "uploadDocument", "getDocuments", "deleteDocument", "getStats",
     "getSystemMetrics", "getBenchmarks"}

\* the method and path each operation fetches
EndpointOf(name) ==
    CASE name = "getHealth" -> "GET /health"
      [] name = "uploadDocument" -> "POST /ingest"
      [] name = "getDocuments" -> "GET /admin/documents"
      [] name = "deleteDocument" -> "DELETE /admin/documents/{id}"
      [] name = "getStats" -> "GET /admin/stats"
      [] name = "getSystemMetrics" -> "GET /metrics/system"
      [] name = "getBenchmarks" -> "GET /metrics/benchmarks"

\* an ApiClient that always sends the key of the build
EnvKeyOnly(session, env) == env

\* getAdminKey(): the session's key when one is stored, else the build's
GetAdminKey(session, env) == IF session # NoKey THEN session ELSE env

\* the X-Admin-Key header the operation's fetch carries
AdminKeyHeader(name, session, env) ==
    IF name \in {"uploadDocument", "getDocuments", "deleteDocument", "getStats"}
    THEN GetAdminKey(session, env)
    ELSE NoHeader

NoCall == [caller |-> "none", batch |-> 0, name |-> "none", endpoint |-> "none",
           arg |-> NoDoc, file |-> NoFile, filename |-> "", key |-> NoHeader,
           state |-> "none", status |-> 0, parses |-> TRUE, success |-> FALSE,
           docs |-> <<>>, rows |-> <<>>, value |-> NoValue, error |-> "none"]

\* an operation up to its fetch, with what its caller keeps for later: arg is
\* deleteDocument's documentId, file is uploadDocument's file, filename is the
\* name the handler shows in its toast; batch tells the fetchData calls of the
\* effect and of the Refresh button (1) from those a handler starts after its
\* await (2)
ApiCall(caller, batch, name, arg, file, filename, session, env) ==
    [NoCall EXCEPT !.caller = caller, !.batch = batch, !.name = name,
                   !.endpoint = EndpointOf(name), !.arg = arg, !.file = file,
                   !.filename = filename,
                   !.key = AdminKeyHeader(name, session, env),
                   !.state = "pending"]

\* the statuses a fetch can settle with; 0 stands for a fetch that rejects
Statuses == {0, 200, 400, 401, 403, 500}

\* a client that takes every response that arrived for a good one
ResponseArrived(status) == status # 0

\* response.ok
ResponseOk(status) == status >= 200 /\ status <= 299

\* a set as a list, in some order
SeqOf(S) ==
    CHOOSE s \in [1..Cardinality(S) -> S] :
        \A x \in S : \E i \in 1..Cardinality(S) : s[i] = x

\* the DocumentSummary of a stored document, as the JSON object of the
\* response (file_type, file_size and uploaded_at are left out)
DocumentSummary(store, d) ==
    [document_id |-> d, filename |-> d[1], chunk_count |-> ChunkCount(store, d)]

\* the body of GET /admin/documents: {documents: [DocumentSummary]}
DocumentsResponse(store) ==
    LET ids == SeqOf(DocumentIds(store))
    IN  [i \in 1..Cardinality(DocumentIds(store)) |-> DocumentSummary(store, ids[i])]

\* the answer of the backend to a request: 401 from the gate, 400 for a file
\* it cannot ingest, 200 otherwise, each with a JSON body
BackendAnswer(c) ==
    [status |-> IF ~Admitted(c.endpoint, c.key) THEN 401
                ELSE IF c.name = "uploadDocument"
                        /\ (Validate(c.file) # "ok" \/ ParseText(c.file) = <<>>)
                     THEN 400
                     ELSE 200,
     parses |-> TRUE,
     success |-> TRUE]

\* what else can come back: a fetch that rejects, any error status with or
\* without a JSON body, and an upload answered 200 with success = false
Faults(c) ==
    { a \in [status : Statuses, parses : BOOLEAN, success : BOOLEAN] :
        /\ a.status = 200 => (c.name = "uploadDocument" /\ a.parses /\ ~a.success)
        /\ a.status # 200 => a.success
        /\ ~a.parses => (a.status # 0 /\ c.name \in {"uploadDocument", "deleteDocument"}) }

\* the request with its response: the body is made from the collection as it
\* is when the backend handles the request
Respond(c, a, store) ==
    [c EXCEPT !.state = "answered", !.status = a.status, !.parses = a.parses,
              !.success = a.status = 200 /\ a.success,
              !.docs = IF a.status = 200 /\ c.name = "getDocuments"
                       THEN DocumentsResponse(store) ELSE <<>>,
              !.value = IF a.status = 200 /\ c.name = "getStats"
                        THEN <<Stats(store)>>
                        ELSE IF a.status = 200 /\ c.name = "getHealth"
                        THEN <<[status |-> "healthy"]>>
                        ELSE NoValue]

\* what the request did to the collection
BackendEffect(c, a, store) ==
    IF a.status = 200 /\ c.name = "deleteDocument"
    THEN store \ DeletedChunks(store, c.arg)
    ELSE IF a.status = 200 /\ a.success /\ c.name = "uploadDocument"
    THEN Upsert(store \ DeletedChunks(store, DocumentId(c.file)),
                Range(RecordsOf(c.file, 1)))
    ELSE store

\* obj.key of a parsed JSON object: undefined when the object has no such key
Field(obj, key) == IF key \in DOMAIN obj THEN obj[key] ELSE Undefined

\* getDocuments: the DocumentInfo built from one element of data.documents
ToDocumentInfo(doc) ==
    [document_id |-> Field(doc, "id"),
     filename |-> Field(doc, "filename"),
     chunk_count |-> Field(doc, "chunk_count")]

\* the promise an operation returns once its fetch has settled
Settle(c) ==
    LET rejected(error) ==
            [c EXCEPT !.state = "rejected", !.error = error, !.docs = <<>>,
                      !.value = NoValue, !.success = FALSE]
    IN  IF c.status = 0 THEN rejected("TypeError")
        ELSE IF ~ResponseOk(c.status)
        THEN IF c.name \in {"uploadDocument", "deleteDocument"} /\ ~c.parses
             THEN rejected("SyntaxError")
             ELSE rejected("Error")
        ELSE IF ~c.parses THEN rejected("SyntaxError")
        ELSE [c EXCEPT !.state = "resolved", !.docs = <<>>,
                       !.rows = IF c.name = "getDocuments"
                                THEN [i \in DOMAIN c.docs |-> ToDocumentInfo(c.docs[i])]
                                ELSE <<>>]

\* the three calls fetchData makes at once
FetchDataCalls(batch, session, env) ==
    { ApiCall("fetchData", batch, name, NoDoc, NoFile, "", session, env) :
        name \in {"getHealth", "getDocuments", "getStats"} }

\* a fetchData that drops the list when any of its requests fails
DocsDataUnlessAnyFailed(group) ==
    IF \E b \in group : b.state = "rejected" THEN <<>>
    ELSE (CHOOSE b \in group : b.name = "getDocuments").rows

\* docsData: api.getDocuments().catch(() => [])
DocsData(group) ==
    LET d == CHOOSE b \in group : b.name = "getDocuments"
    IN  IF d.state = "resolved" THEN d.rows ELSE <<>>

\* healthData and statsData: api.getHealth().catch(() => null), and getStats
ValueOrNull(group, name) ==
    LET d == CHOOSE b \in group : b.name = name
    IN  IF d.state = "resolved" THEN d.value ELSE NoValue

\* the files the user picks in the dashboard
UploadChoices == {File("b", ".txt", <<"x">>), File("c", ".exe", <<"x">>)}

\* setInterval's step and Math.min's cap in handleFileUpload
ProgressStep == 10
ProgressCap == 90

NoToast == [kind |-> "none", filename |-> ""]
Toast(kind, filename) == [kind |-> kind, filename |-> filename]

\* AdminPage renders the dashboard
DashboardRendered == authChecked /\ isAuthenticated

\* fetchData, from the effect that follows authentication or from the Refresh
\* button, while nothing else is in flight
FetchData ==
    /\ DashboardRendered /\ adminApiKey # NoKey
    /\ calls = {}
    /\ calls' = FetchDataCalls(1, sessionKey, envKey)
    /\ isLoading' = TRUE
    /\ UNCHANGED <<settled, documents, health, stats, isUploading, uploadProgress,
                   progressInterval, toast, faults, records>>
    /\ UNCHANGED exceptApi

\* the Refresh button (enabled while isLoading is false) clicked while a
\* delete or an upload is in flight
FetchDataWhileBusy ==
    /\ DashboardRendered /\ adminApiKey # NoKey
    /\ ~isLoading
    /\ calls # {}
    /\ \A c \in calls : c.caller \in {"handleDelete", "handleFileUpload"}
    /\ calls' = calls \cup FetchDataCalls(1, sessionKey, envKey)
    /\ isLoading' = TRUE
    /\ UNCHANGED <<settled, documents, health, stats, isUploading, uploadProgress,
                   progressInterval, toast, faults, records>>
    /\ UNCHANGED exceptApi

\* handleFileUpload up to its await; the input is disabled while isUploading
HandleFileUpload ==
    /\ DashboardRendered
    /\ ~isUploading
    /\ calls = {}
    /\ \E file \in UploadChoices :
         calls' = {ApiCall("handleFileUpload", 0, "uploadDocument", NoDoc, file,
                           file.filename, sessionKey, envKey)}
    /\ isUploading' = TRUE
    /\ uploadProgress' = 0
    /\ progressInterval' = TRUE
    /\ UNCHANGED <<settled, documents, health, stats, isLoading, toast, faults,
                   records>>
    /\ UNCHANGED exceptApi

\* a progress that keeps growing
ProgressUncapped(prev) == prev + ProgressStep

\* the updater the interval passes to setUploadProgress
NextProgress(prev) == Min(prev + ProgressStep, ProgressCap)

\* the callback of handleFileUpload's progress interval
ProgressTick ==
    /\ progressInterval
    /\ uploadProgress' = NextProgress(uploadProgress)
    /\ UNCHANGED <<calls, settled, documents, health, stats, isLoading, isUploading,
                   progressInterval, toast, faults, records>>
    /\ UNCHANGED exceptApi

\* the Delete button of a row (rows are rendered while isLoading is false):
\* handleDelete(doc.document_id, doc.filename) up to its await
HandleDelete ==
    /\ DashboardRendered
    /\ ~isLoading
    /\ calls = {}
    /\ \E i \in DOMAIN documents, confirmed \in BOOLEAN :
         IF confirmed
         THEN calls' = {ApiCall("handleDelete", 0, "deleteDocument",
                                documents[i].document_id, NoFile,
                                documents[i].filename, sessionKey, envKey)}
         ELSE UNCHANGED calls
    /\ UNCHANGED <<settled, documents, health, stats, isLoading, isUploading,
                   uploadProgress, progressInterval, toast, faults, records>>
    /\ UNCHANGED exceptApi

\* useSystemMetrics and useBenchmarks, on any page
UseMetrics ==
    /\ calls = {}
    /\ \E name \in {"getSystemMetrics", "getBenchmarks"} :
         calls' = {ApiCall("hook", 0, name, NoDoc, NoFile, "", sessionKey, envKey)}
    /\ UNCHANGED <<settled, documents, health, stats, isLoading, isUploading,
                   uploadProgress, progressInterval, toast, faults, records>>
    /\ UNCHANGED exceptApi

\* the backend handles a request and answers it
BackendResponds ==
    /\ \E c \in calls :
         /\ c.state = "pending"
         /\ calls' = (calls \ {c}) \cup {Respond(c, BackendAnswer(c), records)}
         /\ records' = BackendEffect(c, BackendAnswer(c), records)
    /\ UNCHANGED <<settled, documents, health, stats, isLoading, isUploading,
                   uploadProgress, progressInterval, toast, faults>>
    /\ UNCHANGED exceptApi

\* the request fails on the way or is answered with an error
RequestFails ==
    /\ faults < MaxFaults
    /\ faults' = faults + 1
    /\ \E c \in calls :
         /\ c.state = "pending"
         /\ \E a \in Faults(c) : calls' = (calls \ {c}) \cup {Respond(c, a, records)}
    /\ UNCHANGED <<settled, documents, health, stats, isLoading, isUploading,
                   uploadProgress, progressInterval, toast, records>>
    /\ UNCHANGED exceptApi

\* fetchData after a call of it has settled: once all three have, the
\* results are stored and isLoading is set false
FetchDataGoesOn(done, rest) ==
    LET group == {b \in rest : b.caller = "fetchData" /\ b.batch = done.batch}
                     \cup {done}
    IN  IF \A b \in group : b.state \in {"resolved", "rejected"}
        THEN /\ calls' = rest \ group
             /\ health' = ValueOrNull(group, "getHealth")
             /\ documents' = DocsData(group)
             /\ stats' = ValueOrNull(group, "getStats")
             /\ isLoading' = FALSE
        ELSE /\ calls' = rest \cup {done}
             /\ UNCHANGED <<health, documents, stats, isLoading>>

\* a fetch settles: the operation's promise settles and the caller goes on.
\* handleDelete and handleFileUpload call fetchData after a success, through
\* the closure of the render they were created in, where the page was
\* authenticated
ApiSettles ==
    /\ \E c \in calls :
         /\ c.state = "answered"
         /\ LET done == Settle(c)
                rest == calls \ {c}
                refresh == FetchDataCalls(2, sessionKey, envKey)
            IN  /\ settled' = done
                /\ CASE c.caller = "fetchData" ->
                          /\ FetchDataGoesOn(done, rest)
                          /\ UNCHANGED <<isUploading, uploadProgress,
                                         progressInterval, toast>>
                     [] c.caller = "handleDelete" ->
                          /\ IF done.state = "resolved"
                             THEN /\ toast' = Toast("deleted", c.filename)
                                  /\ calls' = rest \cup refresh
                                  /\ isLoading' = TRUE
                             ELSE /\ toast' = Toast("delete failed", c.filename)
                                  /\ calls' = rest
                                  /\ UNCHANGED isLoading
                          /\ UNCHANGED <<health, documents, stats, isUploading,
                                         uploadProgress, progressInterval>>
                     [] c.caller = "handleFileUpload" ->
                          /\ progressInterval' = FALSE
                          /\ isUploading' = FALSE
                          /\ uploadProgress' = 0
                          /\ IF done.state = "resolved" /\ done.success
                             THEN /\ toast' = Toast("uploaded", c.filename)
                                  /\ calls' = rest \cup refresh
                                  /\ isLoading' = TRUE
                             ELSE /\ toast' = Toast("upload failed", c.filename)
                                  /\ calls' = rest
                                  /\ UNCHANGED isLoading
                          /\ UNCHANGED <<health, documents, stats>>
                     [] OTHER ->
                          /\ calls' = rest
                          /\ UNCHANGED <<health, documents, stats, isLoading,
                                         isUploading, uploadProgress,
                                         progressInterval, toast>>
    /\ UNCHANGED <<faults, records>>
    /\ UNCHANGED exceptApi

\* the page's state before anything was requested
InitApi ==
    /\ calls = {}
    /\ settled = NoCall
    /\ documents = <<>>
    /\ health = NoValue
    /\ stats = NoValue
    /\ isLoading = TRUE
    /\ isUploading = FALSE
    /\ uploadProgress = 0
    /\ progressInterval = FALSE
    /\ toast = NoToast
    /\ faults = 0

-----------------------------------------------------------------------------
(* useTerminalAnimation *)

\* the strings the hook is rendered with
Texts == {<<>>, <<"a">>, <<"b">>, <<"a", "b">>, <<"b", "a">>}

\* text.slice(0, n)
Slice(s, n) == SubSeq(s, 1, IF n < Len(s) THEN n ELSE Len(s))

\* the hook after its first render and effect, rendered with t
AnimationMounted(t) ==
    /\ animationText = t
    /\ displayText = <<>>
    /\ showCursor = TRUE
    /\ isComplete = FALSE
    /\ index = 0
    /\ typingInterval = TRUE

\* the typing interval's callback
TypingTick ==
    /\ typingInterval
    /\ IF index <= Len(animationText)
       THEN /\ displayText' = Slice(animationText, index)
            /\ index' = index + 1
            /\ UNCHANGED <<isComplete, typingInterval>>
       ELSE /\ isComplete' = TRUE
            /\ typingInterval' = FALSE
            /\ UNCHANGED <<displayText, index>>
    /\ UNCHANGED <<animationText, showCursor>>
    /\ UNCHANGED exceptAnimation

\* the cursor interval's callback
CursorTick ==
    /\ showCursor' = ~showCursor
    /\ UNCHANGED <<animationText, displayText, isComplete, index, typingInterval>>
    /\ UNCHANGED exceptAnimation

\* the hook is rendered with another text: the effect's cleanup clears both
\* intervals and the effect runs again, with a new index and new intervals
TextChanges ==
    /\ \E t \in Texts : t # animationText /\ animationText' = t
    /\ index' = 0
    /\ typingInterval' = TRUE
    /\ UNCHANGED <<displayText, showCursor, isComplete>>
    /\ UNCHANGED exceptAnimation

-----------------------------------------------------------------------------
(* Specifications *)

NextAdmin ==
    \/ PageMount
    \/ BackendAnswers
    \/ NetworkFails
    \/ SessionValidated
    \/ GateMount
    \/ EnvValidated
    \/ SetApiKey
    \/ HandleSubmit
    \/ FormValidated
    \/ Logout

NextStore ==
    \/ RejectRequest
    \/ ReadRequest
    \/ IngestRequest
    \/ DeleteRequest
    \/ \E o \in Ops : IngestCheck(o)
    \/ \E o \in Ops : IngestDeleteOld(o)
    \/ \E o \in Ops : IngestEmbed(o)
    \/ \E o \in Ops : IngestEmbedFail(o)
    \/ \E o \in Ops : IngestUpsert(o)
    \/ \E o \in Ops : IngestUpsertFail(o)
    \/ \E o \in Ops : IngestCompensate(o)

\* the chat widget alone
InitChatWidget ==
    InitChat /\ AdminPageLoaded(NoKey, NoKey) /\ InitStore /\ InitStream /\ InitApi /\ AnimationMounted(<<>>)
SpecChat == InitChatWidget /\ [][NextChat]_vars

\* the admin page alone, against the backend's gate
InitAdminPage == InitChat /\ InitAdmin /\ InitStore /\ InitStream /\ InitApi /\ AnimationMounted(<<>>)
SpecAdmin == InitAdminPage /\ [][NextAdmin]_vars

\* the backend alone, under any client
InitBackend ==
    InitChat /\ AdminPageLoaded(NoKey, NoKey) /\ InitStore /\ InitStream /\ InitApi /\ AnimationMounted(<<>>)
SpecStore == InitBackend /\ [][NextStore]_vars

\* the backend over a collection that was filled before: an earlier version
\* of document "a" and document "b", each indexed once
FilledStore ==
    UNION { Range(RecordsOf(f, 1)) :
              f \in {File("a", ".md", <<"z">>), File("b", ".txt", <<"x">>)} }

InitFilledBackend ==
    /\ InitChat /\ AdminPageLoaded(NoKey, NoKey) /\ InitStream /\ InitApi /\ AnimationMounted(<<>>)
    /\ records = FilledStore
    /\ op = [o \in Ops |-> IdleOp]
    /\ nops = 0
    /\ http = NoHttp
SpecStoreFilled == InitFilledBackend /\ [][NextStore]_vars

\* the admin page with its dashboard, against a backend whose collection was
\* filled before; the page authenticates with the stored key or the key of
\* the build (the key form is covered by SpecAdmin)
NextDashboard ==
    \/ PageMount
    \/ BackendAnswers
    \/ NetworkFails
    \/ SessionValidated
    \/ GateMount
    \/ EnvValidated
    \/ Logout
    \/ FetchData
    \/ HandleFileUpload
    \/ HandleDelete
    \/ UseMetrics
    \/ BackendResponds
    \/ RequestFails
    \/ ApiSettles

InitDashboard ==
    /\ InitChat /\ InitAdmin /\ InitStream /\ InitApi /\ AnimationMounted(<<>>)
    /\ records = FilledStore
    /\ op = [o \in Ops |-> IdleOp]
    /\ nops = 0
    /\ http = NoHttp
SpecDashboard == InitDashboard /\ [][NextDashboard]_vars

\* the dashboard of a session that holds the configured key, with requests
\* that overlap: the page validates the stored key, and the user refreshes,
\* uploads and deletes while earlier requests are still in flight
NextRefresh ==
    \/ PageMount
    \/ BackendAnswers
    \/ NetworkFails
    \/ SessionValidated
    \/ FetchData
    \/ FetchDataWhileBusy
    \/ HandleFileUpload
    \/ ProgressTick
    \/ HandleDelete
    \/ BackendResponds
    \/ RequestFails
    \/ ApiSettles

InitRefresh ==
    /\ InitChat /\ AdminPageLoaded(KeyA, NoKey) /\ InitStream /\ InitApi
    /\ AnimationMounted(<<>>)
    /\ records = FilledStore
    /\ op = [o \in Ops |-> IdleOp]
    /\ nops = 0
    /\ http = NoHttp
SpecRefresh == InitRefresh /\ [][NextRefresh]_vars

\* the animation hook alone, rendered with any of the texts
NextAnimation ==
    \/ TypingTick
    \/ CursorTick
    \/ TextChanges

InitAnimation ==
    /\ InitChat /\ AdminPageLoaded(NoKey, NoKey) /\ InitStore /\ InitStream
    /\ InitApi
    /\ \E t \in Texts : AnimationMounted(t)
SpecAnimation == InitAnimation /\ [][NextAnimation]_vars

NextStream ==
    \/ AnswerStream
    \/ YieldToken
    \/ EndOfStream
    \/ StreamFails

\* one chat request against a collection that was filled before
InitChatBackend ==
    /\ InitChat /\ AdminPageLoaded(NoKey, NoKey) /\ InitStream /\ InitApi /\ AnimationMounted(<<>>)
    /\ records \in Stores
    /\ op = [o \in Ops |-> IdleOp]
    /\ nops = 0
    /\ http = NoHttp
SpecStream == InitChatBackend /\ [][NextStream]_vars

\* the hook called with a short history: useChat(apiUrl, maxHistory) with
\* maxHistory = ShortHistory
InitChatShortHistory ==
    /\ AdminPageLoaded(NoKey, NoKey) /\ InitStore /\ InitStream /\ InitApi /\ AnimationMounted(<<>>)
    /\ messages = <<>>
    /\ messagesD = <<>>
    /\ isInitialized = FALSE
    /\ inputMessage = <<>>
    /\ isTyping = FALSE
    /\ isTypingD = FALSE
    /\ maxHistory = ShortHistory
    /\ nreq = 0
    /\ pc = [r \in Reqs |-> "idle"]
    /\ wire = [r \in Reqs |-> <<>>]
    /\ received = [r \in Reqs |-> <<>>]
    /\ body = [r \in Reqs |-> NoBody]
    /\ buffer = [r \in Reqs |-> <<>>]
    /\ bufferD = [r \in Reqs |-> <<>>]
    /\ assistantContent = [r \in Reqs |-> <<>>]
    /\ assistantContentD = [r \in Reqs |-> <<>>]
    /\ messageAdded = [r \in Reqs |-> FALSE]
    /\ messageAddedD = [r \in Reqs |-> FALSE]
SpecChatShortHistory == InitChatShortHistory /\ [][NextChat]_vars

-----------------------------------------------------------------------------
(* useChat: properties *)

\* no sendMessage call is between its fetch and the end of its stream
ChatQuiescent == \A r \in Reqs : pc[r] \in {"idle", "done", "failed"}

\* the chunk fields, in order, of the data events among a sequence of lines
RECURSIVE ChunksOf(_)
ChunksOf(lines) ==
    IF lines = <<>> THEN <<>>
    ELSE LET line == Head(lines)
             data == Tail(line)
         IN  (IF StartsWithData(line) /\ Parses(data) THEN data[1].chunk ELSE <<>>)
                 \o ChunksOf(Tail(lines))

\* the concatenation of the chunk fields of all data events in the bytes `units`
ChunkConcat(units) ==
    LET lines == SplitLines(units)
    IN  ChunksOf(SubSeq(lines, 1, Len(lines) - 1))

\* C1: once every response has ended, the hook that was sent `data: [DONE]` in
\* place of the terminal event {"chunk": "", "done": true} shows the same
\* message list and the same isTyping as the hook that was sent the terminal
\* event, for every response and every split of its bytes into reads.
C1_DoneSentinelEquivalent ==
    ChatQuiescent => messages = messagesD /\ isTyping = isTypingD

\* C1 witness: a response that carried text and the terminal event has ended
C1_Witness ==
    \E r \in Reqs :
        /\ pc[r] = "done"
        /\ assistantContent[r] # <<>>
        /\ \E i \in 1..Len(received[r]) : received[r][i] = TerminalJson

\* C2: when a response has ended without error, the assistant message created
\* for its request holds the concatenation, in arrival order, of the chunk
\* fields of all data events received.
C2_ContentIsConcatenation ==
    \A r \in Reqs :
        pc[r] = "done" =>
            \A i \in 1..Len(messages) :
                (messages[i].role = "assistant" /\ messages[i].timestamp = r)
                    => messages[i].content = ChunkConcat(received[r])

\* C2, for a run of the hook with a single sendMessage call
C2_ContentIsConcatenationAlone ==
    nreq = 1 => C2_ContentIsConcatenation

\* C12: the message list never holds more than maxHistory messages.
C12_HistoryBounded == Len(messages) <= maxHistory

\* C13: while ChatInput is disabled (isTyping), no click on Send and no
\* Enter in the input gets a message sent.
C13_DisabledNeverSends == [][isTyping => nreq' = nreq]_vars

\* C14: the step in which sendMessage issues its request gives the body the
\* submitted text as `message` and, as `history`, the messages that precede
\* the submitted one in the list it has just retained, in their order, each
\* reduced to role and content; the submitted message is not in it.
C14_RequestBody ==
    [][\A r \in Reqs :
         (pc[r] = "idle" /\ pc'[r] = "fetch") =>
            LET n == Len(messages')
            IN  /\ n >= 1
                /\ messages'[n].role = "user"
                /\ messages'[n].content = inputMessage
                /\ body'[r].message = inputMessage
                /\ Len(body'[r].history) = n - 1
                /\ \A i \in 1..(n - 1) :
                      /\ body'[r].history[i].role = messages'[i].role
                      /\ body'[r].history[i].content = messages'[i].content]_vars

\* a second question is in flight, its history holding the first exchange
C14_Witness ==
    /\ pc[2] = "fetch"
    /\ pc[1] = "done"
    /\ Len(body[2].history) = 3
    /\ body[2].history[2].role = "user"
    /\ body[2].history[3].role = "assistant"
    /\ body[2].history[3].content # <<>>

\* a text of no characters or of spaces only
IsBlank(text) == \A i \in DOMAIN text : text[i] = " "

\* C15: no request is issued from an empty or whitespace-only input and no
\* request in flight carries such a message; a sendMessage step on such an
\* input leaves messages, inputMessage and isTyping as they are.
C15_BlankNeverSent ==
    /\ [][IsBlank(inputMessage) => nreq' = nreq]_vars
    /\ [][(SendMessage /\ IsBlank(inputMessage)) =>
             UNCHANGED <<messages, inputMessage, isTyping>>]_vars
    /\ [](\A r \in Reqs : pc[r] \in {"fetch", "read"} => ~IsBlank(body[r].message))

\* a space is typed after a finished exchange, and nothing is in flight
C15_Witness ==
    /\ inputMessage = <<" ">>
    /\ nreq = 1
    /\ pc[1] = "done"
    /\ ~isTyping

-----------------------------------------------------------------------------
(* Admin page: properties *)

\* C3: isAuthenticated becomes true only in a step that consumes an ok answer
\* of the backend to a GET /admin/stats carrying the very key the page then
\* holds as adminApiKey, and the backend accepts that key; a non-ok answer or
\* a network failure never grants access.
C3_AuthenticatedOnlyByBackend ==
    [][(~isAuthenticated /\ isAuthenticated') =>
          /\ validation.response = "ok"
          /\ validation.key = adminApiKey'
          /\ Authorized(adminApiKey', serverKey)]_vars

\* the page is authenticated with the backend's key
C3_Witness == isAuthenticated /\ adminApiKey = serverKey /\ authChecked

\* C5: every key the admin page sends to the backend for validation has at
\* least 16 characters, and so has the key it is authenticated with, whether
\* the key comes from the form, from sessionStorage or from the build.
C5_NoShortKeySent ==
    /\ validation.response # "none" => Len(validation.key) >= MinKeyLen
    /\ isAuthenticated => Len(adminApiKey) >= MinKeyLen

\* a short key in sessionStorage, in the build and typed into the form, and
\* nothing sent
C5_Witness ==
    /\ pagePc = "mounted" /\ gateMounted
    /\ sessionKey = ShortKey /\ envKey = ShortKey /\ apiKey = ShortKey
    /\ validation = NoValidation

-----------------------------------------------------------------------------
(* Backend: properties *)

IngestsOf(doc) == {o \in Ops : op[o].kind = "ingest" /\ op[o].doc = doc}
DeletesOf(doc) == {o \in Ops : op[o].kind = "delete" /\ op[o].doc = doc}
Completed(o) == op[o].pc \in {"done", "failed"}
IngestedFiles == {op[o].file : o \in {x \in Ops : op[x].kind = "ingest"}}

\* the chunk set ingestion o writes
ChunkSetOf(o) == Range(RecordsOf(op[o].file, o))

RECURSIVE SumChunkCounts(_)
SumChunkCounts(docs) ==
    IF docs = {} THEN 0
    ELSE LET d == CHOOSE x \in docs : TRUE
         IN  d.chunk_count + SumChunkCounts(docs \ {d})

C6_IngestIdempotent ==
    /\ \A o1 \in Ops, o2 \in Ops :
         (op[o1].kind = "ingest" /\ op[o2].kind = "ingest"
            /\ op[o1].file = op[o2].file)
         => /\ op[o1].doc = op[o2].doc
            /\ (op[o1].pc = "done" /\ op[o2].pc = "done")
                 => op[o1].chunk_count = op[o2].chunk_count
    /\ (\A o \in Ops : op[o].pc \in {"idle", "done"} /\ op[o].kind # "delete")
         => /\ \A o \in Ops : op[o].pc = "done" =>
                 /\ ChunkCount(records, op[o].doc) = op[o].chunk_count
                 /\ ChunkCount(records, op[o].doc)
                      = Len(ChunkText(ParseText(op[o].file)))
            /\ Stats(records).total_documents = Cardinality(IngestedFiles)
            /\ Stats(records).total_chunks
                 = SumChunkCounts({[document_id |-> DocumentId(f),
                                    chunk_count |-> Len(ChunkText(ParseText(f)))] :
                                      f \in IngestedFiles})

\* the same file ingested twice, both ingestions finished, nothing else done
C6_Witness ==
    /\ nops = 2
    /\ op[1].pc = "done" /\ op[2].pc = "done"
    /\ op[1].kind = "ingest" /\ op[2].kind = "ingest"
    /\ op[1].file = op[2].file
    /\ op[1].chunk_count > 1

\* C7, where one of the two ingestions succeeded: when two ingestions of a
\* document_id raced (neither found the document in the store), nothing else
\* touched the document and both have completed, the chunks stored under it
\* are exactly the chunk set written by one of the two, never a mixture, a
\* partial set or an empty set.
C7_OneIngestionWins ==
    \A o1 \in Ops, o2 \in Ops :
        (/\ o1 # o2
         /\ IngestsOf(op[o1].doc) = {o1, o2}
         /\ DeletesOf(op[o1].doc) = {}
         /\ ~op[o1].exists /\ ~op[o2].exists
         /\ op[o1].pc = "done" /\ Completed(o2))
        => \E o \in {o1, o2} :
              ChunksOfDocument(records, op[o1].doc) = ChunkSetOf(o)

C9_TotalChunksIsSum ==
    Stats(records).total_chunks = SumChunkCounts(ListDocuments(records))

\* two documents in the store, one of them half indexed by a failing upsert
C9_Witness ==
    /\ Stats(records).total_documents = 2
    /\ \E o \in Ops : op[o].pc = "compensate" /\ op[o].indexed > 0

\* C10: the step in which delete_document(id) returns n leaves no record of
\* id for any query to return, and lowers stats.total_chunks by exactly n.
C10_DeleteComplete ==
    [][\A o \in Ops :
         (op[o].pc = "idle" /\ op'[o].kind = "delete")
         => /\ \A q \in Queries :
                 \A r \in Query(records', q, TopK) : r.document_id # op'[o].doc
            /\ \A r \in records' : r.document_id # op'[o].doc
            /\ Stats(records').total_chunks
                 = Stats(records).total_chunks - op'[o].deleted_chunks]_vars

\* a delete removed the two chunks of a document
C10_Witness ==
    \E o \in Ops :
        /\ op[o].kind = "delete"
        /\ op[o].deleted_chunks > 1
        /\ op[o].doc \notin DocumentIds(records)

-----------------------------------------------------------------------------
(* answer_stream: properties *)

\* C11: the events of a /chat/stream response are intermediate events
\* (done = false) with at most one terminal event (done = true) in the last
\* place, and a response that has ended, also by a failure of the LLM call
\* mid-response, ends with exactly one terminal event, which carries the
\* source list.
C11_OneTerminalEventLast ==
    LET ev == stream.events
    IN  /\ \A i \in DOMAIN ev : ev[i].done => i = Len(ev)
        /\ \A i \in DOMAIN ev : ~ev[i].done => ev[i].sources = Null
        /\ stream.pc = "streaming" => \A i \in DOMAIN ev : ~ev[i].done
        /\ stream.pc = "closed" =>
              /\ ev # <<>>
              /\ ev[Len(ev)].done
              /\ ev[Len(ev)].sources = stream.sources

\* the LLM call failed after a token had been streamed, and the response ended
C11_Witness ==
    /\ stream.pc = "closed"
    /\ Len(stream.events) = 2
    /\ stream.events[2].chunk = ApologyChunk
    /\ stream.sources # <<>>

\* the place of the first hit that carries filename n
FirstHit(hits, n) ==
    CHOOSE i \in DOMAIN hits :
        /\ hits[i].filename = n
        /\ \A j \in DOMAIN hits : hits[j].filename = n => i <= j

\* C19: the sources of a stream are the filenames of the top-k chunks
\* retrieved for its query, each exactly once and in the order of their first
\* occurrence among the hits, and nothing else; the terminal event carries
\* exactly that list.
C19_SourcesAreOrderedDedup ==
    stream.pc \in {"streaming", "closed"} =>
        LET hits == stream.retrieved
            src == stream.sources
        IN  /\ hits \in RankedHits(records, stream.query, TopK)
            /\ \A i \in DOMAIN src, j \in DOMAIN src : i # j => src[i] # src[j]
            /\ Range(src) = {hits[i].filename : i \in DOMAIN hits}
            /\ \A i \in DOMAIN src, j \in DOMAIN src :
                   i < j => FirstHit(hits, src[i]) < FirstHit(hits, src[j])
            /\ stream.pc = "closed" =>
                   stream.events[Len(stream.events)].sources = src

\* the two hits come from two documents of one filename, and the stream ended
C19_Witness ==
    /\ stream.pc = "closed"
    /\ Len(stream.retrieved) = 2
    /\ stream.retrieved[1].filename = stream.retrieved[2].filename
    /\ stream.retrieved[1].document_id # stream.retrieved[2].document_id
    /\ Len(stream.sources) = 1

-----------------------------------------------------------------------------
(* delete_document: idempotence *)

\* C20: delete_document(id) for an id that is not in the store returns
\* deleted_chunks = 0 and leaves the store unchanged; after any delete the id
\* is not in the store, so a second delete of it right after returns 0.
C20_DeleteIdempotent ==
    [][\A o \in Ops :
         (op[o].pc = "idle" /\ op'[o].kind = "delete")
         => /\ op'[o].doc \notin DocumentIds(records)
                 => (op'[o].deleted_chunks = 0 /\ records' = records)
            /\ op'[o].doc \notin DocumentIds(records')]_vars

\* a document was deleted and deleted again right after: the first delete
\* removed its chunk, the second returned 0 and the rest of the store is there
C20_Witness ==
    /\ nops = 2
    /\ op[1].kind = "delete" /\ op[2].kind = "delete"
    /\ op[1].doc = op[2].doc
    /\ op[1].deleted_chunks > 0
    /\ op[2].deleted_chunks = 0
    /\ records # {}

-----------------------------------------------------------------------------
(* ApiClient and dashboard: properties *)

\* the calls a step starts
Started == {c \in calls' : c \notin calls /\ c.state = "pending"}

Finished == {c \in calls \cup {settled} : c.state \in {"resolved", "rejected"}}

\* C18: every ApiClient operation returns a rejected promise when fetch
\* rejects or the response is not ok, whatever the status, and never resolves
\* with the body of a non-ok response.
C18_RejectsUnlessOk ==
    \A c \in Finished :
        /\ c.name \in ApiOperations
        /\ (c.status < 200 \/ c.status > 299) => c.state = "rejected"
        /\ c.state = "resolved" => c.status = 200

\* of fetchData's three calls, getHealth was answered 500 and getDocuments,
\* which settled last, 401: both promises are rejected
C18_Witness ==
    /\ \E h \in calls, d \in calls :
         /\ h.name = "getHealth" /\ h.status = 500 /\ h.state = "rejected"
         /\ d.name = "getDocuments" /\ d.status = 401 /\ d.state = "rejected"
    /\ settled.name = "getDocuments"

\* C17: for every DocumentSummary that GET /admin/documents returns, the row
\* built from it carries the summary's document_id, and the row's Delete
\* button sends DELETE /admin/documents/{document_id} for a document the
\* backend listed.
C17_RowCarriesDocumentId ==
    /\ [][\A c \in calls :
            (c.name = "getDocuments" /\ c.state = "answered" /\ c.status = 200
               /\ settled' = Settle(c))
            => /\ Len(settled'.rows) = Len(c.docs)
               /\ \A i \in DOMAIN settled'.rows :
                    settled'.rows[i].document_id = c.docs[i].document_id]_vars
    /\ [][\A c \in Started :
            c.name = "deleteDocument"
            => \E i \in DOMAIN documents :
                 /\ documents[i].document_id = c.arg
                 /\ c.arg[1] = documents[i].filename]_vars

-----------------------------------------------------------------------------
(* useChat: concurrent requests, failures and the typing indicator *)

\* the message is the assistant message request r created
OwnMessage(msg, r) == msg.role = "assistant" /\ msg.timestamp = r

\* C21: a chunk of a response that is still streaming changes only the
\* assistant message created for its own request: every other message of
\* the list, a user message, another request's assistant message or the
\* welcome message, is after the read what it was before.
C21_ChunkTouchesOwnMessage ==
    [][\A r \in Reqs :
         (pc[r] = "read" /\ received'[r] # received[r])
         => \A i \in DOMAIN messages :
              ~OwnMessage(messages[i], r)
              => (i \in DOMAIN messages' /\ messages'[i] = messages[i])]_vars

\* C22: the step in which a sendMessage call fails, at its fetch or at a
\* read, leaves isTyping false and the list one message longer: the
\* messages it held, the user's and any partial reply among them, followed
\* by the assistant error message.
C22_FailureAddsOneError ==
    [][\A r \in Reqs :
         (pc[r] \in {"fetch", "read"} /\ pc'[r] = "failed")
         => /\ ~isTyping'
            /\ Len(messages') = Len(messages) + 1
            /\ \A i \in DOMAIN messages : messages'[i] = messages[i]
            /\ messages'[Len(messages')].role = "assistant"
            /\ messages'[Len(messages')].content = ErrorText]_vars

\* a read failed after part of the reply was shown: the list ends with the
\* question, the partial reply and the error message
C22_Witness ==
    /\ nreq = 1
    /\ pc[1] = "failed"
    /\ ~isTyping
    /\ Len(messages) = 4
    /\ messages[2].role = "user"
    /\ OwnMessage(messages[3], 1) /\ messages[3].content = <<Tokens[1]>>
    /\ messages[4] = ErrorMessage(1)

\* C23: once its request has finished, every user message of the list is
\* followed by an assistant message.
C23_UserMessageAnswered ==
    \A i \in DOMAIN messages :
        (messages[i].role = "user" /\ pc[messages[i].timestamp] \in {"done", "failed"})
        => \E j \in DOMAIN messages : j > i /\ messages[j].role = "assistant"

\* C28: the step in which a sendMessage call ends, after a stream with or
\* without content or in the catch block, leaves isTyping false, and isTyping
\* is false whenever no request is in flight.
C28_TypingStops ==
    /\ [][\A r \in Reqs :
            (pc[r] \in {"fetch", "read"} /\ pc'[r] \in {"done", "failed"})
            => ~isTyping']_vars
    /\ [](ChatQuiescent => ~isTyping)

\* a stream that carried only the terminal event has closed: nothing was
\* added after the question and the indicator is off
C28_Witness ==
    /\ nreq = 1
    /\ pc[1] = "done"
    /\ received[1] = EventBytes(TerminalJson)
    /\ Len(messages) = 2
    /\ ~isTyping

-----------------------------------------------------------------------------
(* useTerminalAnimation: properties *)

IsPrefix(s, t) == Len(s) <= Len(t) /\ s = SubSeq(t, 1, Len(s))

\* C30: displayText is always a prefix of the current text, and isComplete
\* is true only when displayText is the whole current text, also after the
\* text has changed.
C30_DisplayIsPrefix ==
    /\ IsPrefix(displayText, animationText)
    /\ isComplete => displayText = animationText

-----------------------------------------------------------------------------
(* Admin page: logout and rejected keys *)

\* the dashboard has listed documents and the page is not authenticated: the
\* user has logged out
LoggedOut == documents # <<>> /\ ~isAuthenticated

\* C25: Logout empties sessionStorage's key and adminApiKey and sets
\* isAuthenticated false, and from then on the page is authenticated again
\* only by a key submitted through the form of ApiKeyGate and accepted by the
\* backend.
C25_LockedAfterLogout ==
    /\ [][Logout => (sessionKey' = NoKey /\ adminApiKey' = NoKey
                       /\ ~isAuthenticated')]_vars
    /\ [](LoggedOut => (sessionKey = NoKey /\ adminApiKey = NoKey))
    /\ [][(LoggedOut /\ isAuthenticated')
            => (validation.src = "form" /\ validation.response = "ok")]_vars

\* C26: once the page has checked the session, sessionStorage never holds a
\* key of at least MinKeyLen characters that the backend rejects: a stored key
\* rejected at page load is removed, and a rejected key of the form or of the
\* build is not stored.
C26_NoRejectedKeyStored ==
    /\ []((authChecked /\ sessionKey # NoKey /\ Len(sessionKey) >= MinKeyLen)
            => Authorized(sessionKey, serverKey))
    /\ [][(validation.response = "unauthorized" /\ validation' = NoValidation)
            => sessionKey' # validation.key]_vars

\* the build holds no key; the page has checked the session and a key
\* submitted through the form was turned down: sessionStorage holds nothing
C26_Witness ==
    /\ envKey = NoKey
    /\ authChecked /\ ~isAuthenticated
    /\ gateError
    /\ sessionKey = NoKey
    /\ validation = NoValidation

-----------------------------------------------------------------------------
(* Admin dashboard: refresh, upload and delete *)

\* the calls of the fetchData that made c
Batch(c) == {b \in calls : b.caller = c.caller /\ b.batch = c.batch}

\* the call of the batch for the operation
CallOf(group, name) == CHOOSE b \in group : b.name = name

\* the documents of the response to a getDocuments call
Listed(d) == IF d.state = "answered" THEN d.docs ELSE d.rows

\* C27: when the last of fetchData's three requests settles, health is the
\* health status if getHealth was answered 200 and null otherwise, documents
\* lists what getDocuments received if it was answered 200 and is empty
\* otherwise, stats is the statistics if getStats was answered 200 and null
\* otherwise, each whatever happened to the other two, and isLoading is false.
C27_FailIndependently ==
    [][\A c \in calls :
         (c.caller = "fetchData" /\ c.state = "answered"
            /\ calls' = calls \ Batch(c))
         => LET h == CallOf(Batch(c), "getHealth")
                d == CallOf(Batch(c), "getDocuments")
                s == CallOf(Batch(c), "getStats")
            IN  /\ health' = IF h.status = 200 THEN <<[status |-> "healthy"]>>
                             ELSE NoValue
                /\ IF d.status = 200
                   THEN /\ Len(documents') = Len(Listed(d))
                        /\ \A i \in DOMAIN documents' :
                             /\ documents'[i].filename = Listed(d)[i].filename
                             /\ documents'[i].chunk_count = Listed(d)[i].chunk_count
                   ELSE documents' = <<>>
                /\ stats' = IF s.status = 200 THEN s.value ELSE NoValue
                /\ s.status = 200 => s.value # NoValue
                /\ ~isLoading']_vars

\* a fetchData has finished whose getHealth failed while getDocuments and
\* getStats succeeded: health is null, the list and the statistics are shown
C27_Witness ==
    /\ calls = {}
    /\ settled.caller = "fetchData"
    /\ ~isLoading
    /\ health = NoValue
    /\ documents # <<>>
    /\ stats # NoValue

\* the upload requests that have not settled
UploadsInFlight == {c \in calls : c.caller = "handleFileUpload"}

\* C29: while an upload's request is in flight uploadProgress is between 0
\* and 90; when the request settles, whether the upload succeeded, was
\* answered success = false or threw, the progress interval is cleared,
\* isUploading is false and uploadProgress is 0; and whenever no upload is in
\* flight the file input is enabled, with no interval running.
C29_UploadEndsClean ==
    /\ [](UploadsInFlight # {} => (uploadProgress >= 0 /\ uploadProgress <= 90))
    /\ [][\A c \in UploadsInFlight :
            (c.state = "answered" /\ c \notin calls')
            => (~progressInterval' /\ ~isUploading' /\ uploadProgress' = 0)]_vars
    /\ [](UploadsInFlight = {}
            => (~progressInterval /\ ~isUploading /\ uploadProgress = 0))

\* an upload was answered 200 with success = false: the page showed the
\* failure and the input is enabled again
C29_Witness ==
    /\ settled.name = "uploadDocument"
    /\ settled.state = "resolved"
    /\ ~settled.success
    /\ toast = Toast("upload failed", "b")
    /\ UploadsInFlight = {}
    /\ ~isUploading
    /\ uploadProgress = 0


\* the fetchData requests that have not completed
RefreshInFlight == {c \in calls : c.caller = "fetchData"}

\* C24: once the page has announced that a document was deleted and no
\* fetchData is in flight any more, the list shows no row of that document,
\* in whatever order the responses of overlapping refreshes arrived.
C24_DeletedStaysGone ==
    (toast.kind = "deleted" /\ RefreshInFlight = {})
    => \A i \in DOMAIN documents : documents[i].filename # toast.filename

=============================================================================
